---- MODULE Spec2Model ----
(***************************************************************************)
(* Tic-tac-toe backend: the move-submission handler (api/main.py), the     *)
(* board rules (api/core.py) and the SQL statements it issues              *)
(* (api/database.py).                                                      *)
(*                                                                         *)
(* Every `await database.xxx(...)` of a handler is one SQL statement on    *)
(* its own connection (database.connect), so each is one atomic step and   *)
(* other requests may run between two of them.  The Python code between    *)
(* two awaits touches only the handler's locals and is folded into the     *)
(* step of the await that precedes it.                                     *)
(*                                                                         *)
(* Tables are sequences in insertion order; row i of player/game has the   *)
(* serial id i; the move table is read back in insertion order (ORDER BY   *)
(* timestamp).  A timestamp column is modelled by NULL / set; created_at   *)
(* and move.timestamp, which no handler reads, are left out.  game.board   *)
(* holds JSON text; the handler works on the parsed nested lists.          *)
(*                                                                         *)
(* Spec interleaves the statements of up to NumWorkers api_submit_move     *)
(* calls; SeqSpec runs one api_submit_move at a time.  RaceSpec is Spec    *)
(* followed for whole games; HistSpec adds one api_game_history call to    *)
(* SeqSpec; JoinSpec runs api_join_game statement by statement.  PlaySpec, *)
(* FnSpec and ValidSpec call the functions of core.py directly.            *)
(***************************************************************************)
EXTENDS Integers, Sequences, FiniteSets, TLC

\* ---------------------------------------------------------------- bounds
MaxUsers   == 2     \* distinct usernames that are ever sent
MaxGames   == 1     \* rows of the game table
NumWorkers == 2     \* api_submit_move requests in flight at once
MaxMoves   == 5     \* Spec: no submission is read once move has this many rows
MaxCoord   == 3     \* x, y of a request range over -1 .. MaxCoord
MaxBranch  == 1     \* Spec: clients aim at the first MaxBranch free cells only
SeqBranch  == 2     \* SeqSpec: the same, for requests sent one at a time
JoinMoves  == 2     \* JoinSpec: no submission is read once move has this many rows
RaceMoves  == 9     \* RaceSpec: no submission is read once move has this many rows

Usernames == 1..MaxUsers
Workers   == 1..NumWorkers
Coords    == (0 - 1)..MaxCoord
\* The coordinate pairs of a request: every cell, and every pair with one
\* coordinate out of range.
MoveInputs == {c \in Coords \X Coords : c[1] \in 0..2 \/ c[2] \in 0..2}
PlayerIds == 1..(MaxUsers + 1)      \* ids a request may carry; one never exists
GameIds   == 1..(MaxGames + 1)      \* ids a request may carry; one never exists

\* ------------------------------------------------------- Python / SQL values
None   == "None"     \* Python None, SQL NULL (text columns)
NoId   == 0          \* SQL NULL in an integer column (serial ids start at 1)
Stamp  == "NOW"      \* a timestamp column that has been set
Idx    == 0..2       \* range(3)

\* JSON text of one cell, as stored in game.board, and json.loads / the
\* driver's encoding of a Python cell.
JsonNull == "null"
JsonLoadsCell(t) ==
    CASE t = JsonNull -> None
      [] t = "\"\""   -> ""
      [] t = "\"X\""  -> "X"
      [] t = "\"O\""  -> "O"

JsonDumpsCell(c) ==
    CASE c = None -> JsonNull
      [] c = ""   -> "\"\""
      [] c = "X"  -> "\"X\""
      [] c = "O"  -> "\"O\""

JsonDumps(board) == [i \in Idx |-> [j \in Idx |-> JsonDumpsCell(board[i][j])]]

\* main.py _deserialize_board: the stored JSON text parsed to nested lists.
_deserialize_board(doc) == [i \in Idx |-> [j \in Idx |-> JsonLoadsCell(doc[i][j])]]

\* Python truthiness of an Optional[str].
Truthy(s) == s # None /\ s # ""

\* ------------------------------------------------------------------ core.py
empty_board == [i \in Idx |-> [j \in Idx |-> None]]

\* is_valid_move that takes only None for an empty cell.
is_valid_move_NoneOnly(board, x, y) ==
    /\ 0 <= x /\ x < 3
    /\ 0 <= y /\ y < 3
    /\ board[x][y] = None

is_valid_move(board, x, y) ==
    /\ 0 <= x /\ x < 3
    /\ 0 <= y /\ y < 3
    /\ (board[x][y] = None \/ board[x][y] = "")

make_move(board, x, y, symbol) == [board EXCEPT ![x][y] = symbol]

\* The 8 lines in the order check_win appends them: row i, column i for
\* i = 0, 1, 2, then the two diagonals.  line[k] of Python is Line[k + 1].
Lines(board) ==
    << <<board[0][0], board[0][1], board[0][2]>>,
       <<board[0][0], board[1][0], board[2][0]>>,
       <<board[1][0], board[1][1], board[1][2]>>,
       <<board[0][1], board[1][1], board[2][1]>>,
       <<board[2][0], board[2][1], board[2][2]>>,
       <<board[0][2], board[1][2], board[2][2]>>,
       <<board[0][0], board[1][1], board[2][2]>>,
       <<board[0][2], board[1][1], board[2][0]>> >>

\* The line test without `line[0] and`: three equal cells of any value.
LineWon_AnyEqual(line) == line[1] = line[2] /\ line[2] = line[3]

\* if line[0] and line[0] == line[1] == line[2]
LineWon(line) == Truthy(line[1]) /\ line[1] = line[2] /\ line[2] = line[3]

\* check_win without its last line (the diagonal from [0][2] to [2][0]).
check_win_NoAntiDiagonal(board) ==
    LET lines == SubSeq(Lines(board), 1, 7)
        hits  == {k \in 1..Len(lines) : LineWon(lines[k])}
    IN IF hits = {} THEN None
       ELSE LET first == CHOOSE k \in hits : \A m \in hits : k <= m
            IN lines[first][1]

\* check_win scanning the three rows only.
check_win_RowsOnly(board) ==
    LET lines == <<Lines(board)[1], Lines(board)[3], Lines(board)[5]>>
        hits  == {k \in 1..Len(lines) : LineWon(lines[k])}
    IN IF hits = {} THEN None
       ELSE LET first == CHOOSE k \in hits : \A m \in hits : k <= m
            IN lines[first][1]

check_win(board) ==
    LET lines == Lines(board)
        hits  == {k \in 1..Len(lines) : LineWon(lines[k])}
    IN IF hits = {} THEN None
       ELSE LET first == CHOOSE k \in hits : \A m \in hits : k <= m
            IN lines[first][1]

\* check_draw that only tests that the board is full.
check_draw_FullOnly(board) ==
    ~(\E i \in Idx : \E j \in Idx : board[i][j] = None \/ board[i][j] = "")

check_draw(board) ==
    IF \E i \in Idx : \E j \in Idx : board[i][j] = None \/ board[i][j] = ""
    THEN FALSE
    ELSE check_win(board) = None

next_turn(current_turn) == IF current_turn = "X" THEN "O" ELSE "X"

\* -------------------------------------------------------------------- state
VARIABLES player,   \* table player: sequence of usernames, id = position
          game,     \* table game: sequence of rows, id = position
          move,     \* table move: sequence of rows in timestamp order
          req,      \* per worker: the api_submit_move call it is running
          core,     \* a direct call of core.py: its arguments and its result
          hist,     \* the api_game_history call that is running
          jreq      \* per worker: the api_join_game call it is running (JoinSpec)

vars == <<player, game, move, req, core, hist, jreq>>

\* -------------------------------------------------------------- database.py
\* Each operator is the table after the statement (or the value it returns).
get_player(player_id) == player_id \in 1..Len(player)

get_player_by_username(username) ==
    IF \E i \in 1..Len(player) : player[i] = username
    THEN CHOOSE i \in 1..Len(player) : player[i] = username
    ELSE NoId

create_player(username) == Append(player, username)

\* INSERT ... VALUES ($1, $2, 'X', '[["", "", ""], ["", "", ""], ["", "", ""]]', NOW())
NewBoardDoc == [i \in Idx |-> [j \in Idx |-> "\"\""]]

create_game(player_x_id, player_o_id) ==
    Append(game, [id          |-> Len(game) + 1,
                  player_x_id |-> player_x_id,
                  player_o_id |-> player_o_id,
                  next_turn   |-> "X",
                  board       |-> NewBoardDoc,
                  winner      |-> None,
                  finished_at |-> None])

\* SELECT * FROM game WHERE id=$1 : the row, or no row.
HasGame(game_id) == game_id \in 1..Len(game)
get_game(game_id) == game[game_id]

\* UPDATE game SET player_o_id = $1 WHERE id = $2 AND player_o_id IS NULL
\* RETURNING * : JoinHits says whether a row came back.
JoinHits(game_id) == HasGame(game_id) /\ game[game_id].player_o_id = NoId

\* The UPDATE without `AND player_o_id IS NULL`.
join_game_Unconditional(game_id, player_o_id) ==
    IF HasGame(game_id)
    THEN [game EXCEPT ![game_id].player_o_id = player_o_id]
    ELSE game

join_game(game_id, player_o_id) ==
    IF JoinHits(game_id)
    THEN [game EXCEPT ![game_id].player_o_id = player_o_id]
    ELSE game

\* UPDATE game SET winner=$1, finished_at=NOW() WHERE id=$2
finish_game(game_id, winner) ==
    IF HasGame(game_id)
    THEN [game EXCEPT ![game_id].winner = winner, ![game_id].finished_at = Stamp]
    ELSE game

\* UPDATE game SET board=$1, next_turn=$2, winner=$3 WHERE id=$4
update_game_board(game_id, board, next_t, winner) ==
    IF HasGame(game_id)
    THEN [game EXCEPT ![game_id].board = JsonDumps(board),
                      ![game_id].next_turn = next_t,
                      ![game_id].winner = winner]
    ELSE game

\* INSERT INTO move (game_id, player_id, x, y, symbol, timestamp)
add_move(game_id, player_id, x, y, symbol) ==
    Append(move, [game_id |-> game_id, player_id |-> player_id,
                  x |-> x, y |-> y, symbol |-> symbol])

\* SELECT ... FROM move WHERE game_id=$1 ORDER BY timestamp ASC
get_moves_for_game(game_id) == SelectSeq(move, LAMBDA m : m.game_id = game_id)

\* ------------------------------------------------------------------ main.py
\* HTTPException details of api_submit_move, and the 200 response.
NotFound        == "Game not found"
NotAParticipant == "Player not part of this game"
GameFinished    == "Game already finished"
NotYourTurn     == "Not your turn"
InvalidMove     == "Invalid move"
OK              == "OK"

NoRow == [id |-> NoId, player_x_id |-> NoId, player_o_id |-> NoId,
          next_turn |-> None, board |-> NewBoardDoc, winner |-> None,
          finished_at |-> None]

\* A worker that runs no request.
IdleReq == [pc |-> "idle", game_id |-> NoId, player_id |-> NoId, x |-> 0, y |-> 0,
            g |-> NoRow, board |-> empty_board, player_symbol |-> None,
            next_t |-> None, winner_str |-> None, finished |-> FALSE,
            detail |-> None, updates |-> 0, inserts |-> 0]

\* The checks of lines 141-155 on the row g; the detail of the first
\* HTTPException raised, or OK.
player_symbol_of(g, player_id) == IF player_id = g.player_x_id THEN "X" ELSE "O"

\* Checks with the validity check moved before the turn check.
Checks_ValidityBeforeTurn(g, player_id, x, y) ==
    IF player_id \notin {g.player_x_id, g.player_o_id} THEN NotAParticipant
    ELSE IF Truthy(g.winner) THEN GameFinished
    ELSE IF ~is_valid_move(_deserialize_board(g.board), x, y) THEN InvalidMove
    ELSE IF g.next_turn # player_symbol_of(g, player_id) THEN NotYourTurn
    ELSE OK

\* Checks with the finished check moved after the turn check.
Checks_TurnBeforeFinished(g, player_id, x, y) ==
    IF player_id \notin {g.player_x_id, g.player_o_id} THEN NotAParticipant
    ELSE IF g.next_turn # player_symbol_of(g, player_id) THEN NotYourTurn
    ELSE IF Truthy(g.winner) THEN GameFinished
    ELSE IF ~is_valid_move(_deserialize_board(g.board), x, y) THEN InvalidMove
    ELSE OK

\* Checks without the participant check.
Checks_NoParticipantCheck(g, player_id, x, y) ==
    IF Truthy(g.winner) THEN GameFinished
    ELSE IF g.next_turn # player_symbol_of(g, player_id) THEN NotYourTurn
    ELSE IF ~is_valid_move(_deserialize_board(g.board), x, y) THEN InvalidMove
    ELSE OK

Checks(g, player_id, x, y) ==
    IF player_id \notin {g.player_x_id, g.player_o_id} THEN NotAParticipant
    ELSE IF Truthy(g.winner) THEN GameFinished
    ELSE IF g.next_turn # player_symbol_of(g, player_id) THEN NotYourTurn
    ELSE IF ~is_valid_move(_deserialize_board(g.board), x, y) THEN InvalidMove
    ELSE OK

\* A request that raised: the locals are gone, the response is known.
Raised(detail) == [IdleReq EXCEPT !.pc = "done", !.detail = detail]

\* api_submit_move with the occupied-cell check made only after the writes:
\* the move on an occupied cell is written and then answered "Invalid move".
AfterGetGame_LateValidation(game_id, player_id, x, y) ==
    IF ~HasGame(game_id) THEN Raised(NotFound)
    ELSE
    LET g      == get_game(game_id)
        inside == x \in Idx /\ y \in Idx
        detail == Checks(g, player_id, x, y)
    IN IF detail # OK /\ ~(detail = InvalidMove /\ inside) THEN Raised(detail)
       ELSE
       LET sym      == player_symbol_of(g, player_id)
           board    == make_move(_deserialize_board(g.board), x, y, sym)
           winner   == check_win(board)
           draw     == check_draw(board)
           finished == (winner # None) \/ draw
       IN [pc |-> "update", game_id |-> game_id, player_id |-> player_id,
           x |-> x, y |-> y, g |-> g, board |-> board, player_symbol |-> sym,
           next_t |-> IF finished THEN None ELSE next_turn(g.next_turn),
           winner_str |-> IF Truthy(winner) THEN winner
                          ELSE IF draw THEN "Draw" ELSE None,
           finished |-> finished, detail |-> detail, updates |-> 0, inserts |-> 0]

\* Lines 140-162: the handler's locals when it reaches update_game_board.
AfterGetGame(game_id, player_id, x, y) ==
    IF ~HasGame(game_id) THEN Raised(NotFound)
    ELSE
    LET g      == get_game(game_id)
        detail == Checks(g, player_id, x, y)
    IN IF detail # OK THEN Raised(detail)
       ELSE
       LET sym      == player_symbol_of(g, player_id)
           board    == make_move(_deserialize_board(g.board), x, y, sym)
           winner   == check_win(board)
           draw     == check_draw(board)
           finished == (winner # None) \/ draw
       IN [pc |-> "update", game_id |-> game_id, player_id |-> player_id,
           x |-> x, y |-> y, g |-> g, board |-> board, player_symbol |-> sym,
           next_t |-> IF finished THEN None ELSE next_turn(g.next_turn),
           winner_str |-> IF Truthy(winner) THEN winner
                          ELSE IF draw THEN "Draw" ELSE None,
           finished |-> finished, detail |-> OK, updates |-> 0, inserts |-> 0]

\* No direct call of core.py is being made.
NoCall == [fn |-> "none", board |-> empty_board, x |-> 0, y |-> 0,
           symbol |-> "X", after_win |-> FALSE, result |-> None, detail |-> None]

\* A worker that runs no api_join_game call.
IdleJoin == [pc |-> "idle", game_id |-> NoId, username |-> 0, player_id |-> NoId,
             joined |-> FALSE, detail |-> None]

\* No api_game_history call is running.
IdleHist == [pc |-> "idle", game_id |-> NoId, g |-> NoRow, moves |-> << >>,
             detail |-> None]

Init ==
    /\ player = << >>
    /\ game = << >>
    /\ move = << >>
    /\ req = [w \in Workers |-> IdleReq]
    /\ core = NoCall
    /\ hist = IdleHist
    /\ jreq = [w \in Workers |-> IdleJoin]

\* POST /players
api_create_player(username) ==
    /\ get_player_by_username(username) = NoId
    /\ player' = create_player(username)
    /\ UNCHANGED <<game, move, req, core, hist, jreq>>

\* POST /games (404 when a named player does not exist)
api_create_game(player_x_id, player_o_id) ==
    /\ Len(game) < MaxGames
    /\ \A pid \in {player_x_id, player_o_id} : pid # NoId => get_player(pid)
    /\ game' = create_game(player_x_id, player_o_id)
    /\ UNCHANGED <<player, move, req, core, hist, jreq>>

\* POST /games/{game_id}/join : get or create the player, then join_game.
api_join_game(game_id, username) ==
    LET known == get_player_by_username(username)
        pid   == IF known # NoId THEN known ELSE Len(player) + 1
    IN /\ player' = IF known # NoId THEN player ELSE create_player(username)
       /\ game' = join_game(game_id, pid)
       /\ UNCHANGED <<move, req, core, hist, jreq>>

\* The requests clients send.  Usernames are taken in order (which name a new
\* player picks has no effect on any game).  A move may carry any game id,
\* player id and coordinates, except that a free cell of the stored board is
\* aimed at only when fewer than MaxBranch free cells precede it in Preference.
CreatorIds == {1}

OfferedUsernames == {u \in Usernames : u <= Len(player) + 1}

Preference == << <<0, 0>>, <<1, 0>>, <<0, 1>>, <<1, 1>>, <<0, 2>>, <<1, 2>>,
                 <<2, 0>>, <<2, 1>>, <<2, 2>> >>

Rank(x, y) == CHOOSE k \in 1..9 : Preference[k] = <<x, y>>

IsFree(doc, i, j) == doc[i][j] \in {JsonNull, "\"\""}

FreeBefore(doc, x, y) ==
    Cardinality({k \in 1..9 : /\ IsFree(doc, Preference[k][1], Preference[k][2])
                              /\ k < Rank(x, y)})

Offered(game_id, x, y, branch) ==
    (HasGame(game_id) /\ x \in Idx /\ y \in Idx /\ IsFree(game[game_id].board, x, y))
        => FreeBefore(game[game_id].board, x, y) < branch

\* POST /games/{game_id}/moves, lines 140-162: get_game, the checks and the
\* new board; the handler raises or goes on to its first write.
GetGame(w, game_id, player_id, x, y) ==
    /\ req[w].pc = "idle"
    /\ req' = [req EXCEPT ![w] = AfterGetGame(game_id, player_id, x, y)]
    /\ UNCHANGED <<player, game, move, core, hist, jreq>>

\* A request arrives while others may be in flight.
SubmitGetGame(w, game_id, player_id, x, y) ==
    /\ Len(move) < MaxMoves
    /\ Offered(game_id, x, y, MaxBranch)
    /\ GetGame(w, game_id, player_id, x, y)

\* A request arrives when no other is in flight (requests run in isolation).
SeqSubmitGetGame(w, game_id, player_id, x, y) ==
    /\ \A v \in Workers : req[v].pc = "idle"
    /\ Offered(game_id, x, y, SeqBranch)
    /\ GetGame(w, game_id, player_id, x, y)

\* line 163: await database.update_game_board(...)
SubmitUpdateGameBoard(w) ==
    /\ req[w].pc = "update"
    /\ game' = update_game_board(req[w].game_id, req[w].board, req[w].next_t,
                                 req[w].winner_str)
    /\ req' = [req EXCEPT ![w].pc = IF req[w].finished /\ Truthy(req[w].winner_str)
                                     THEN "finish" ELSE "add_move",
                          ![w].updates = @ + 1]
    /\ UNCHANGED <<player, move, core, hist, jreq>>

\* line 165: await database.finish_game(...)
SubmitFinishGame(w) ==
    /\ req[w].pc = "finish"
    /\ game' = finish_game(req[w].game_id, req[w].winner_str)
    /\ req' = [req EXCEPT ![w].pc = "add_move", ![w].updates = @ + 1]
    /\ UNCHANGED <<player, move, core, hist, jreq>>

\* lines 166-176: await database.add_move(...), get_player, the response.
SubmitAddMove(w) ==
    /\ req[w].pc = "add_move"
    /\ move' = add_move(req[w].game_id, req[w].player_id, req[w].x, req[w].y,
                        req[w].player_symbol)
    /\ req' = [req EXCEPT ![w].pc = "done", ![w].inserts = @ + 1]
    /\ UNCHANGED <<player, game, core, hist, jreq>>

\* The response is sent; the worker takes the next request.
Respond(w) ==
    /\ req[w].pc = "done"
    /\ req' = [req EXCEPT ![w] = IdleReq]
    /\ UNCHANGED <<player, game, move, core, hist, jreq>>

Next ==
    \/ \E u \in OfferedUsernames : api_create_player(u)
    \/ \E px \in CreatorIds, po \in PlayerIds \cup {NoId} : api_create_game(px, po)
    \/ \E gid \in GameIds, u \in OfferedUsernames : api_join_game(gid, u)
    \/ \E w \in Workers, gid \in GameIds, pid \in PlayerIds, c \in MoveInputs :
          SubmitGetGame(w, gid, pid, c[1], c[2])
    \/ \E w \in Workers : SubmitUpdateGameBoard(w)
    \/ \E w \in Workers : SubmitFinishGame(w)
    \/ \E w \in Workers : SubmitAddMove(w)
    \/ \E w \in Workers : Respond(w)

\* Concurrent requests: any interleaving of the handlers' statements.
Spec == Init /\ [][Next]_vars

SeqNext ==
    \/ \E u \in OfferedUsernames : api_create_player(u)
    \/ \E px \in CreatorIds, po \in PlayerIds \cup {NoId} : api_create_game(px, po)
    \/ \E gid \in GameIds, u \in OfferedUsernames : api_join_game(gid, u)
    \/ \E w \in Workers, gid \in GameIds, pid \in PlayerIds, c \in MoveInputs :
          SeqSubmitGetGame(w, gid, pid, c[1], c[2])
    \/ \E w \in Workers : SubmitUpdateGameBoard(w)
    \/ \E w \in Workers : SubmitFinishGame(w)
    \/ \E w \in Workers : SubmitAddMove(w)
    \/ \E w \in Workers : Respond(w)

\* One api_submit_move at a time: each request runs from get_game to its
\* response with no other submission in between.
SeqSpec == Init /\ [][SeqNext]_vars

\* A request for a cell of the board arrives while others may be in flight
\* and the move table has fewer than RaceMoves rows.
RaceSubmitGetGame(w, game_id, player_id, x, y) ==
    /\ Len(move) < RaceMoves
    /\ Offered(game_id, x, y, MaxBranch)
    /\ GetGame(w, game_id, player_id, x, y)

RaceNext ==
    \/ \E u \in OfferedUsernames : api_create_player(u)
    \/ \E px \in CreatorIds, po \in PlayerIds \cup {NoId} : api_create_game(px, po)
    \/ \E gid \in GameIds, u \in OfferedUsernames : api_join_game(gid, u)
    \/ \E w \in Workers, gid \in GameIds, pid \in PlayerIds, c \in Idx \X Idx :
          RaceSubmitGetGame(w, gid, pid, c[1], c[2])
    \/ \E w \in Workers : SubmitUpdateGameBoard(w)
    \/ \E w \in Workers : SubmitFinishGame(w)
    \/ \E w \in Workers : SubmitAddMove(w)
    \/ \E w \in Workers : Respond(w)

\* Concurrent requests as in Spec, followed for whole games: the
\* coordinates sent are in range.
RaceSpec == Init /\ [][RaceNext]_vars

\* ---------------------------------------------------- GET /games/{id}/history
\* models.GameOut(board=...): List[List[Optional[Literal['X', 'O']]]] takes a
\* board whose cells are 'X', 'O' or None and raises on any other cell; the
\* unhandled ValidationError is answered 500.
ServerError == "Internal Server Error"

\* GameOut that takes a board with any cells.
GameOutValid_AnyCell(g) ==
    \A i \in Idx, j \in Idx : _deserialize_board(g.board)[i][j] \in {None, "", "X", "O"}

GameOutValid(g) ==
    \A i \in Idx, j \in Idx : _deserialize_board(g.board)[i][j] \in {None, "X", "O"}

\* line 181: g = await database.get_game(game_id), 404 when there is none.
HistoryGetGame(game_id) ==
    /\ hist.pc = "idle"
    /\ hist' = IF ~HasGame(game_id)
               THEN [IdleHist EXCEPT !.pc = "done", !.detail = NotFound]
               ELSE [IdleHist EXCEPT !.pc = "moves", !.game_id = game_id,
                                     !.g = get_game(game_id)]
    /\ UNCHANGED <<player, game, move, req, core, jreq>>

\* lines 184-205: moves = await database.get_moves_for_game(game_id), the
\* players, and the response built from g and moves.
HistoryGetMoves ==
    /\ hist.pc = "moves"
    /\ hist' = IF GameOutValid(hist.g)
               THEN [hist EXCEPT !.pc = "done", !.detail = OK,
                                 !.moves = get_moves_for_game(hist.game_id)]
               ELSE [IdleHist EXCEPT !.pc = "done", !.detail = ServerError]
    /\ UNCHANGED <<player, game, move, req, core, jreq>>

\* The response is sent.
HistoryRespond ==
    /\ hist.pc = "done"
    /\ hist' = IdleHist
    /\ UNCHANGED <<player, game, move, req, core, jreq>>

HistNext ==
    \/ \E u \in OfferedUsernames : api_create_player(u)
    \/ \E px \in CreatorIds, po \in PlayerIds \cup {NoId} : api_create_game(px, po)
    \/ \E gid \in GameIds, u \in OfferedUsernames : api_join_game(gid, u)
    \/ \E w \in Workers, gid \in GameIds, pid \in PlayerIds, c \in MoveInputs :
          SeqSubmitGetGame(w, gid, pid, c[1], c[2])
    \/ \E w \in Workers : SubmitUpdateGameBoard(w)
    \/ \E w \in Workers : SubmitFinishGame(w)
    \/ \E w \in Workers : SubmitAddMove(w)
    \/ \E w \in Workers : Respond(w)
    \/ \E gid \in GameIds : HistoryGetGame(gid)
    \/ HistoryGetMoves
    \/ HistoryRespond

\* One api_game_history call interleaved with api_submit_move calls that run
\* one at a time.
HistSpec == Init /\ [][HistNext]_vars

\* ------------------------------------------------ POST /games/{id}/join by statement
JoinRejected == "Game already has two players or does not exist"

\* line 78: player = await database.get_player_by_username(join_req.username)
JoinGetPlayer(w, game_id, username) ==
    /\ jreq[w].pc = "idle"
    /\ LET known == get_player_by_username(username)
       IN jreq' = [jreq EXCEPT ![w] =
                     [IdleJoin EXCEPT !.pc = IF known # NoId THEN "join" ELSE "create",
                                      !.game_id = game_id, !.username = username,
                                      !.player_id = known]]
    /\ UNCHANGED <<player, game, move, req, core, hist>>

\* line 80: player = await database.create_player(join_req.username).  When
\* another request has inserted the username since line 78, the INSERT adds
\* a second row or fails on a unique index (the schema is not in the
\* repository): both outcomes are possible.
JoinCreatePlayer(w) ==
    /\ jreq[w].pc = "create"
    /\ \/ /\ Len(player) <= MaxUsers
          /\ player' = create_player(jreq[w].username)
          /\ jreq' = [jreq EXCEPT ![w].pc = "join", ![w].player_id = Len(player) + 1]
       \/ /\ get_player_by_username(jreq[w].username) # NoId
          /\ player' = player
          /\ jreq' = [jreq EXCEPT ![w] = [IdleJoin EXCEPT !.pc = "done",
                                                          !.detail = ServerError]]
    /\ UNCHANGED <<game, move, req, core, hist>>

\* lines 81-95: g = await database.join_game(game_id, player["id"]); 400 when
\* no row came back, else the response GameOut(board = ...).
JoinJoinGame(w) ==
    /\ jreq[w].pc = "join"
    /\ game' = join_game(jreq[w].game_id, jreq[w].player_id)
    /\ jreq' = [jreq EXCEPT ![w] =
                  [IdleJoin EXCEPT !.pc = "done",
                                   !.game_id = jreq[w].game_id,
                                   !.joined = JoinHits(jreq[w].game_id),
                                   !.detail =
                                       IF ~JoinHits(jreq[w].game_id) THEN JoinRejected
                                       ELSE IF GameOutValid(game[jreq[w].game_id]) THEN OK
                                       ELSE ServerError]]
    /\ UNCHANGED <<player, move, req, core, hist>>

\* The response is sent; the worker takes the next request.
JoinRespond(w) ==
    /\ jreq[w].pc = "done"
    /\ jreq' = [jreq EXCEPT ![w] = IdleJoin]
    /\ UNCHANGED <<player, game, move, req, core, hist>>

\* A move request arrives while no other submission is in flight and the
\* game has fewer than JoinMoves moves.
JoinSubmitGetGame(w, game_id, player_id, x, y) ==
    /\ Len(move) < JoinMoves
    /\ \A v \in Workers : req[v].pc = "idle"
    /\ Offered(game_id, x, y, MaxBranch)
    /\ GetGame(w, game_id, player_id, x, y)

JoinNext ==
    \/ \E u \in OfferedUsernames : api_create_player(u)
    \/ \E px \in CreatorIds, po \in PlayerIds \cup {NoId} : api_create_game(px, po)
    \/ \E w \in Workers, gid \in GameIds, u \in OfferedUsernames : JoinGetPlayer(w, gid, u)
    \/ \E w \in Workers : JoinCreatePlayer(w)
    \/ \E w \in Workers : JoinJoinGame(w)
    \/ \E w \in Workers : JoinRespond(w)
    \/ \E w \in Workers, gid \in GameIds, pid \in PlayerIds, c \in MoveInputs :
          JoinSubmitGetGame(w, gid, pid, c[1], c[2])
    \/ \E w \in Workers : SubmitUpdateGameBoard(w)
    \/ \E w \in Workers : SubmitAddMove(w)
    \/ \E w \in Workers : Respond(w)

\* Concurrent api_join_game calls, statement by statement, interleaved with
\* the first moves of the game.
JoinSpec == Init /\ [][JoinNext]_vars

\* ------------------------------------------------- core.py called directly
\* The values a board cell can hold: None, the stored "", and the two symbols.
Cells  == {None, "", "X", "O"}
Boards == [Idx -> [Idx -> Cells]]

\* The game row a handler holds when it has loaded `board` for a game whose
\* X seat is player 1 and whose turn is X.
RowOf(board) == [id |-> 1, player_x_id |-> 1, player_o_id |-> 2, next_turn |-> "X",
                 board |-> JsonDumps(board), winner |-> None, finished_at |-> None]

\* A game played on core.py alone: is_valid_move, then make_move with the
\* symbol whose turn it is, then next_turn.  after_win records that a move
\* was applied to a board on which check_win already named a winner.
PlayInit ==
    /\ player = << >>
    /\ game = << >>
    /\ move = << >>
    /\ req = [w \in Workers |-> IdleReq]
    /\ core = [NoCall EXCEPT !.fn = "play"]
    /\ hist = IdleHist
    /\ jreq = [w \in Workers |-> IdleJoin]

core_make_move(x, y) ==
    /\ core.fn = "play"
    /\ is_valid_move(core.board, x, y)
    /\ core' = [core EXCEPT !.board = make_move(core.board, x, y, core.symbol),
                            !.symbol = next_turn(core.symbol),
                            !.after_win = core.after_win \/ check_win(core.board) # None]
    /\ UNCHANGED <<player, game, move, req, hist, jreq>>

PlayNext == \E x \in Coords, y \in Coords : core_make_move(x, y)

PlaySpec == PlayInit /\ [][PlayNext]_vars

\* One call of a core.py function on an arbitrary board.
FnInit ==
    /\ player = << >>
    /\ game = << >>
    /\ move = << >>
    /\ req = [w \in Workers |-> IdleReq]
    /\ core \in {[NoCall EXCEPT !.fn = "input", !.board = b] : b \in Boards}
    /\ hist = IdleHist
    /\ jreq = [w \in Workers |-> IdleJoin]

call_check_win ==
    /\ core.fn = "input"
    /\ core' = [core EXCEPT !.fn = "check_win", !.result = check_win(core.board)]
    /\ UNCHANGED <<player, game, move, req, hist, jreq>>

\* main.py 158-162 on the board after the move: winner or ("Draw" if draw
\* else None).
winner_str_of(board) ==
    LET winner == check_win(board)
        draw   == check_draw(board)
    IN IF Truthy(winner) THEN winner ELSE IF draw THEN "Draw" ELSE None

\* check_draw(board), and the outcome api_submit_move stores for the board.
call_check_draw ==
    /\ core.fn = "input"
    /\ core' = [core EXCEPT !.fn = "check_draw", !.result = check_draw(core.board),
                            !.detail = winner_str_of(core.board)]
    /\ UNCHANGED <<player, game, move, req, hist, jreq>>

FnNext ==
    \/ call_check_win
    \/ call_check_draw

FnSpec == FnInit /\ [][FnNext]_vars

\* One call of is_valid_move.  The board is any board whose empty cells are
\* all written the same way (all None, as core.empty_board writes them, or
\* all "", as database.create_game writes them).
UniformBoards ==
    {b \in Boards : \/ \A i \in Idx, j \in Idx : b[i][j] # None
                    \/ \A i \in Idx, j \in Idx : b[i][j] # ""}

ValidInit ==
    /\ player = << >>
    /\ game = << >>
    /\ move = << >>
    /\ req = [w \in Workers |-> IdleReq]
    /\ core \in {[NoCall EXCEPT !.fn = "input", !.board = b] : b \in UniformBoards}
    /\ hist = IdleHist
    /\ jreq = [w \in Workers |-> IdleJoin]

\* is_valid_move(board, x, y), and what lines 141-155 of api_submit_move
\* answer to player 1 for the same board and coordinates.
call_is_valid_move(x, y) ==
    /\ core.fn = "input"
    /\ core' = [core EXCEPT !.fn = "is_valid_move", !.x = x, !.y = y,
                            !.result = is_valid_move(core.board, x, y),
                            !.detail = Checks(RowOf(core.board), 1, x, y)]
    /\ UNCHANGED <<player, game, move, req, hist, jreq>>

ValidNext == \E x \in Coords, y \in Coords : call_is_valid_move(x, y)

ValidSpec == ValidInit /\ [][ValidNext]_vars

\* ============================================================ the properties
\* Vocabulary of the specification, stated on the stored game row.
Concluded(row) == row.winner \in {"X", "O", "Draw"}

CellOf(row, i, j) == _deserialize_board(row.board)[i][j]
EmptyCell(c) == c \in {None, ""}

\* The 8 winning lines as sets of cells.
WinLines ==
    {{<<i, 0>>, <<i, 1>>, <<i, 2>>} : i \in Idx} \cup
    {{<<0, j>>, <<1, j>>, <<2, j>>} : j \in Idx} \cup
    {{<<0, 0>>, <<1, 1>>, <<2, 2>>}, {<<0, 2>>, <<1, 1>>, <<2, 0>>}}

HasLine(b, sym) == \E L \in WinLines : \A c \in L : b[c[1]][c[2]] = sym
IsFull(b) == \A i \in Idx, j \in Idx : ~EmptyCell(b[i][j])

InFlight(w) == req[w].pc \in {"update", "finish", "add_move"}
Accepted(w) == req[w].pc = "done" /\ req[w].detail = OK
Rejected(w) == req[w].pc = "done" /\ req[w].detail # OK
Quiescent   == \A w \in Workers : ~InFlight(w)

\* What api_submit_move answers to a request that reads the current state.
Response(game_id, player_id, x, y) == AfterGetGame(game_id, player_id, x, y).detail

\* The five preconditions of submitMove on the stored state.
Pre1(gid)         == HasGame(gid)
Pre2(gid)         == ~Concluded(game[gid])
Pre3(gid, pid)    == pid \in {game[gid].player_x_id, game[gid].player_o_id}
Pre4(gid, pid)    == game[gid].next_turn =
                        (IF pid = game[gid].player_x_id THEN "X" ELSE "O")
Pre5(gid, x, y)   == x \in 0..2 /\ y \in 0..2 /\ EmptyCell(CellOf(game[gid], x, y))

\* The error of the first violated precondition in the order 1, 2, 3, 4, 5.
FirstFailure12345(gid, pid, x, y) ==
    IF ~Pre1(gid) THEN NotFound
    ELSE IF ~Pre2(gid) THEN GameFinished
    ELSE IF ~Pre3(gid, pid) THEN NotAParticipant
    ELSE IF ~Pre4(gid, pid) THEN NotYourTurn
    ELSE IF ~Pre5(gid, x, y) THEN InvalidMove
    ELSE OK

\* The same in the order 1, 3, 2, 4, 5.
FirstFailure13245(gid, pid, x, y) ==
    IF ~Pre1(gid) THEN NotFound
    ELSE IF ~Pre3(gid, pid) THEN NotAParticipant
    ELSE IF ~Pre2(gid) THEN GameFinished
    ELSE IF ~Pre4(gid, pid) THEN NotYourTurn
    ELSE IF ~Pre5(gid, x, y) THEN InvalidMove
    ELSE OK

\* C1: two submissions that were valid against the same stored state of a
\* game never both succeed (one of them is rejected with a conflict).
C1_OneOfTwoRacersSucceeds ==
    \A v \in Workers, w \in Workers :
        (v # w /\ Accepted(v) /\ Accepted(w) /\ req[v].game_id = req[w].game_id)
            => req[v].g # req[w].g

\* C2 as stated: in every reachable state, the answer of submitMove to every
\* request is the error of the first violated precondition in the order
\* exists, InProgress, participant, turn, valid move (OK when none is).
C2_ErrorOrderAsStated ==
    \A gid \in GameIds, pid \in PlayerIds, c \in MoveInputs :
        Response(gid, pid, c[1], c[2]) = FirstFailure12345(gid, pid, c[1], c[2])

\* C2 amended: in every reachable state, the answer of submitMove to every
\* request is the error of the first violated precondition in the order
\* exists, participant, InProgress, turn, valid move (OK when none is).
C2_ErrorOrderOfCode ==
    \A gid \in GameIds, pid \in PlayerIds, c \in MoveInputs :
        Response(gid, pid, c[1], c[2]) = FirstFailure13245(gid, pid, c[1], c[2])

\* C2 witness: an outsider's move on a concluded game was answered
\* "not a participant" (preconditions 2 and 3 both violated).
C2_Witness ==
    \E w \in Workers, gid \in 1..Len(game) :
        /\ Rejected(w) /\ req[w].detail = NotAParticipant
        /\ Concluded(game[gid])

\* C3: once a game is concluded, no step changes its board or its outcome or
\* gives it a next turn.
C3_ConcludedIsFrozen ==
    [][\A gid \in 1..Len(game) :
          Concluded(game[gid]) =>
              /\ game'[gid].board = game[gid].board
              /\ game'[gid].winner = game[gid].winner
              /\ game'[gid].next_turn = None]_vars

\* C4: in every stored state of every game, next_turn is NULL exactly when
\* the game is concluded.
C4_NoTurnIffConcluded ==
    \A gid \in 1..Len(game) : (game[gid].next_turn = None) <=> Concluded(game[gid])

\* C5: whenever no submission is in flight, a cell of a game's board is
\* non-empty exactly when exactly one Move of the game names it, and then it
\* holds that Move's symbol.
MovesAt(gid, i, j) ==
    {k \in 1..Len(move) : move[k].game_id = gid /\ move[k].x = i /\ move[k].y = j}

C5_BoardIsReplayOfMoves ==
    Quiescent =>
        \A gid \in 1..Len(game), i \in Idx, j \in Idx :
            /\ ~EmptyCell(CellOf(game[gid], i, j)) <=> Cardinality(MovesAt(gid, i, j)) = 1
            /\ \A k \in MovesAt(gid, i, j) : CellOf(game[gid], i, j) = move[k].symbol

\* C6: a rejected submitMove writes nothing: the step that answers with an
\* error leaves the game and move tables as they were, and a request that is
\* answered with an error has issued no UPDATE and no INSERT.
C6_RejectionWritesNothing ==
    [][\A w \in Workers :
          /\ (req[w].pc = "idle" /\ req'[w].pc # "idle" /\ req'[w].detail # OK)
                => (game' = game /\ move' = move /\ req'[w].pc = "done")
          /\ (req'[w].detail \notin {OK, None})
                => (req'[w].updates = 0 /\ req'[w].inserts = 0)]_vars

\* C6 witness: a move at an occupied or out-of-range cell of a game with
\* moves on it was answered "invalid move".
C6_Witness ==
    \E w \in Workers : Rejected(w) /\ req[w].detail = InvalidMove /\ Len(move) > 0

\* C7: an accepted submitMove has issued exactly one UPDATE of the game row
\* and one INSERT of a Move, and no stored state shows a concluded game
\* whose finished_at is unset.
C7_OneAtomicGameUpdate ==
    /\ \A w \in Workers : Accepted(w) => (req[w].updates = 1 /\ req[w].inserts = 1)
    /\ \A gid \in 1..Len(game) : Concluded(game[gid]) => game[gid].finished_at # None

\* C8: in every reachable state with a concluded game, the answer of
\* submitMove to a participant of that game is GameFinished, whatever the
\* coordinates (free cell, occupied cell, out of range).
C8_ConcludedRejectsParticipants ==
    \A gid \in 1..Len(game), pid \in PlayerIds, c \in MoveInputs :
        (Concluded(game[gid]) /\ Pre3(gid, pid))
            => Response(gid, pid, c[1], c[2]) = GameFinished

\* C8 witness: a move on a drawn game was answered GameFinished.
C8_Witness ==
    \E w \in Workers, gid \in 1..Len(game) :
        /\ Rejected(w) /\ req[w].detail = GameFinished
        /\ game[gid].winner = "Draw"

\* C9: after a submitMove accepted in isolation the stored game is the
\* state advance gives on the new board: the cell played added to the board
\* read; a completed line of s means winner s, no next turn, finished_at
\* set; else a full board means a draw, no next turn, finished_at set; else
\* no winner, finished_at unset and the turn toggled.
Toggle(t) == CASE t = "X" -> "O" [] t = "O" -> "X"

C9_AcceptedMoveAdvances ==
    \A w \in Workers :
        Accepted(w) =>
            LET row == game[req[w].game_id]
                old == req[w].g
                nb  == [i \in Idx |-> [j \in Idx |->
                          IF i = req[w].x /\ j = req[w].y THEN req[w].player_symbol
                          ELSE CellOf(old, i, j)]]
            IN /\ _deserialize_board(row.board) = nb
               /\ \A sym \in {"X", "O"} :
                     HasLine(nb, sym) =>
                        /\ row.winner = sym
                        /\ row.next_turn = None
                        /\ row.finished_at # None
               /\ (~HasLine(nb, "X") /\ ~HasLine(nb, "O") /\ IsFull(nb)) =>
                        /\ row.winner = "Draw"
                        /\ row.next_turn = None
                        /\ row.finished_at # None
               /\ (~HasLine(nb, "X") /\ ~HasLine(nb, "O") /\ ~IsFull(nb)) =>
                        /\ row.winner = None
                        /\ row.finished_at = None
                        /\ row.next_turn = Toggle(old.next_turn)

\* C9 witness: the ninth move of a game was accepted and the game is drawn.
C9_Witness ==
    \E w \in Workers :
        /\ Accepted(w)
        /\ Len(move) = 9
        /\ game[req[w].game_id].winner = "Draw"

\* C10: a new game has next turn X and the Moves of a game carry the symbols
\* X, O, X, O, ... in order, so that (X moves) - (O moves) is 0 or 1.
SymbolCount(ms, sym) == Cardinality({k \in 1..Len(ms) : ms[k].symbol = sym})

C10_TurnsAlternate ==
    \A gid \in 1..Len(game) :
        LET ms == get_moves_for_game(gid)
        IN /\ (ms = << >> /\ Quiescent) => game[gid].next_turn = "X"
           /\ \A k \in 1..Len(ms) : ms[k].symbol = (IF k % 2 = 1 THEN "X" ELSE "O")
           /\ SymbolCount(ms, "X") - SymbolCount(ms, "O") \in {0, 1}

\* C11: every board loaded from a game row, handed to core.py or returned
\* holds only X, O or null in its cells (a new game is all null, and after X
\* plays (0,0) the rest of the board is null): the empty string never
\* appears in a loaded board.
CanonicalBoard(b) == \A i \in Idx, j \in Idx : b[i][j] \in {"X", "O", None}

C11_CanonicalEmptyCells ==
    /\ \A gid \in 1..Len(game) : CanonicalBoard(_deserialize_board(game[gid].board))
    /\ \A w \in Workers : (InFlight(w) \/ Accepted(w)) => CanonicalBoard(req[w].board)

\* The symbols of the lines check_win finds completed, whatever the order in
\* which it scans them.
WonSymbols(b) == {Lines(b)[k][1] : k \in {m \in 1..8 : LineWon(Lines(b)[m])}}

\* C12 as stated: a board produced by applying valid moves to the empty
\* board with alternating symbols starting with X never holds a completed
\* line of X together with a completed line of O, so every completed line
\* check_win can find first carries the same symbol.
C12_NoTwoWinners ==
    core.fn = "play" =>
        /\ ~(HasLine(core.board, "X") /\ HasLine(core.board, "O"))
        /\ Cardinality(WonSymbols(core.board)) <= 1

\* C12 amended: the same, for the boards of a game in which no move is
\* applied to a board on which check_win already names a winner.
C12_NoTwoWinnersInLegalGame ==
    (core.fn = "play" /\ ~core.after_win) =>
        /\ ~(HasLine(core.board, "X") /\ HasLine(core.board, "O"))
        /\ Cardinality(WonSymbols(core.board)) <= 1
        /\ WonSymbols(core.board) = {check_win(core.board)} \ {None}

\* C12 witness: a legal game that ended with two completed lines of X
\* (the ninth move completes a row and a column at once).
C12_Witness ==
    /\ core.fn = "play" /\ ~core.after_win
    /\ IsFull(core.board)
    /\ Cardinality({L \in WinLines : \A c \in L : core.board[c[1]][c[2]] = "X"}) = 2

\* C13 as stated: on every board, check_win returns symbol s exactly when
\* some line has all three cells equal to s, returns none exactly when no
\* line is filled by one symbol, and never reports a line of empty cells.
C13_WinIffLine ==
    core.fn = "check_win" =>
        /\ \A s \in {"X", "O"} : (core.result = s) <=> HasLine(core.board, s)
        /\ (core.result = None) <=> (~HasLine(core.board, "X") /\ ~HasLine(core.board, "O"))
        /\ core.result \in {None, "X", "O"}

\* C13 amended: on every board, check_win returns symbol s only if some
\* line has all three cells equal to s, returns s whenever a line of s is
\* complete and no line of the other symbol is, returns none exactly when
\* no line is filled by one symbol, and never reports a line of empty cells.
C13_WinOnlyIfLine ==
    core.fn = "check_win" =>
        /\ \A s \in {"X", "O"} : (core.result = s) => HasLine(core.board, s)
        /\ \A s \in {"X", "O"} :
              (HasLine(core.board, s) /\ ~HasLine(core.board, next_turn(s)))
                  => core.result = s
        /\ (core.result = None) <=> (~HasLine(core.board, "X") /\ ~HasLine(core.board, "O"))
        /\ core.result \in {None, "X", "O"}

\* C13 witness: check_win answered O on a board that holds a line of X, a
\* line of O and a line of three empty strings.
C13_Witness ==
    /\ core.fn = "check_win" /\ core.result = "O"
    /\ HasLine(core.board, "X") /\ HasLine(core.board, "O") /\ HasLine(core.board, "")

\* C14: on every board, check_draw is true exactly when every cell is
\* non-empty and no line is completed; a full board with a completed line
\* is not a draw, and the outcome stored for it is the winner, never Draw.
C14_DrawIffFullAndNoWin ==
    core.fn = "check_draw" =>
        /\ core.result = (IsFull(core.board) /\ ~HasLine(core.board, "X")
                                             /\ ~HasLine(core.board, "O"))
        /\ (IsFull(core.board) /\ (HasLine(core.board, "X") \/ HasLine(core.board, "O")))
              => (core.result = FALSE /\ core.detail \in {"X", "O"}
                                      /\ HasLine(core.board, core.detail))
        /\ (core.detail = "Draw") <=> core.result

\* C14 witness: check_draw answered false on a full board with a completed
\* line.
C14_Witness ==
    /\ core.fn = "check_draw" /\ core.result = FALSE
    /\ IsFull(core.board) /\ HasLine(core.board, "X")

\* C15: for every board and all coordinates, is_valid_move is true exactly
\* when 0 <= x < 3, 0 <= y < 3 and cell (x, y) is empty; for coordinates out
\* of range it is false whatever the board, and api_submit_move then
\* answers InvalidMove; it answers InvalidMove exactly when is_valid_move is
\* false.
C15_ValidIffInRangeAndEmpty ==
    core.fn = "is_valid_move" =>
        LET inside == 0 <= core.x /\ core.x < 3 /\ 0 <= core.y /\ core.y < 3
        IN /\ core.result \in BOOLEAN
           /\ core.result <=> (inside /\ EmptyCell(core.board[core.x][core.y]))
           /\ ~inside => (core.result = FALSE /\ core.detail = InvalidMove)
           /\ (core.detail = InvalidMove) <=> ~core.result

\* C15 witness: is_valid_move answered false for a negative x and a y of 3
\* or more.
C15_Witness ==
    /\ core.fn = "is_valid_move" /\ core.result = FALSE
    /\ core.x < 0 /\ core.y >= 3
    /\ core.detail = InvalidMove

\* C16: in every reachable state, a game whose O seat is empty is not
\* concluded and has no Move with symbol O.
C16_EmptySeatMeansOpenGame ==
    \A gid \in 1..Len(game) :
        game[gid].player_o_id = NoId =>
            /\ ~Concluded(game[gid])
            /\ \A k \in 1..Len(move) : move[k].game_id = gid => move[k].symbol # "O"

\* C16 witness: X's move was accepted on a game whose O seat is still empty.
C16_Witness ==
    \E w \in Workers :
        /\ Accepted(w)
        /\ game[req[w].game_id].player_o_id = NoId
        /\ req[w].player_symbol = "X"

C18_JoinIsAtomicOnSeat ==
    [][/\ \A w \in Workers :
            (jreq[w].pc = "join" /\ jreq'[w].pc = "done") =>
                LET gid  == jreq[w].game_id
                    open == gid \in 1..Len(game) /\ game[gid].player_o_id = NoId
                IN /\ jreq'[w].joined <=> open
                   /\ open => /\ game'[gid].player_o_id = jreq[w].player_id
                              /\ game' = [game EXCEPT ![gid].player_o_id =
                                                         jreq[w].player_id]
                              /\ jreq'[w].detail # JoinRejected
                   /\ ~open => (game' = game /\ jreq'[w].detail = JoinRejected)
       /\ \A gid \in 1..Len(game) :
            /\ game[gid].player_o_id # NoId
                  => game'[gid].player_o_id = game[gid].player_o_id
            /\ game'[gid].player_o_id # game[gid].player_o_id
                  => /\ game'[gid].board = game[gid].board
                     /\ game'[gid].next_turn = game[gid].next_turn
                     /\ game'[gid].winner = game[gid].winner
                     /\ game'[gid].player_x_id = game[gid].player_x_id
       /\ \A gid \in GameIds :
            Cardinality({w \in Workers : jreq'[w].joined /\ jreq'[w].game_id = gid}) <= 1
      ]_vars

\* C18 witness: two join requests on the same game, which has a move on its
\* board, have both run their join statement: one took the seat, the other
\* was rejected.
C18_Witness ==
    \E v \in Workers, w \in Workers :
        /\ jreq[v].pc = "done" /\ jreq[v].joined
        /\ jreq[w].pc = "done" /\ jreq[w].detail = JoinRejected
        /\ jreq[v].game_id = jreq[w].game_id
        /\ HasGame(jreq[v].game_id)
        /\ \E i \in Idx, j \in Idx : CellOf(game[jreq[v].game_id], i, j) = "X"

\* C19: in every reachable state a game has at most 9 Move records, and a
\* game with 9 Move records is concluded.
C19_AtMostNineMoves ==
    \A gid \in 1..Len(game) :
        /\ Len(get_moves_for_game(gid)) <= 9
        /\ Len(get_moves_for_game(gid)) = 9 => Concluded(game[gid])

\* C20: in every reachable state, a game that is not concluded and whose O
\* seat is set has a participant whose move on every empty cell would be
\* accepted, however the two seats were filled.
C20_SomeoneCanMove ==
    \A gid \in 1..Len(game) :
        (~Concluded(game[gid]) /\ game[gid].player_o_id # NoId) =>
            \E pid \in {game[gid].player_x_id, game[gid].player_o_id} :
                \A i \in Idx, j \in Idx :
                    EmptyCell(CellOf(game[gid], i, j)) => Response(gid, pid, i, j) = OK

====
